---- MODULE Spec2Model ----
(***************************************************************************)
(* GlossaryManager of src/core/glossary.py: the per-language glossary      *)
(* tables, load_glossary, set_current_language, get_term and               *)
(* find_terms_in_text.                                                     *)
(*                                                                         *)
(* A Python str is a sequence of characters; a character is a one-letter   *)
(* TLA+ string, and a character outside ASCII is written by its code point *)
(* ("U+AC00").  The empty str is << >>.                                    *)
(***************************************************************************)
EXTENDS Integers, Sequences, FiniteSets, TLC

VARIABLES glossaries, current_language, now, ret

vars == <<glossaries, current_language, now, ret>>

(***************************************************************************)
(* Bounds of the model.                                                    *)
(***************************************************************************)
\* load_glossary calls in one behaviour (each reads the clock once)
MaxLoads == 3
\* pieces concatenated into one scanned text
MaxPieces == 4

(***************************************************************************)
(* Characters and str methods.                                             *)
(***************************************************************************)
UPPER == <<"A","B","C","D","E","F","G","H","I","J","K","L","M",
           "N","O","P","Q","R","S","T","U","V","W","X","Y","Z">>
LOWER == <<"a","b","c","d","e","f","g","h","i","j","k","l","m",
           "n","o","p","q","r","s","t","u","v","w","x","y","z">>

UpperSet == {UPPER[i] : i \in DOMAIN UPPER}
LowerSet == {LOWER[i] : i \in DOMAIN LOWER}

\* Hangul, CJK and kana characters the inputs use: caseless, and \w matches them
Caseless == {"U+AC00", "U+B098", "U+4E2D", "U+6587", "U+65E5", "U+672C",
             "U+8A9E", "U+30CF", "U+30F3", "U+30B0", "U+30EB", "U+30E1", "U+30E2"}

Digits == {"0","1","2","3","4","5","6","7","8","9"}

\* str.isspace characters the inputs use
Whitespace == {" ", "\t", "\n"}

\* the argument of word.strip(...) in the ko branch
KoPunct == {".", ",", "!", "?", ":", ";", "\"", "'",
            "(", ")", "[", "]", "{", "}", "<", ">"}

\* the characters the regex class \w matches
WordChars == UpperSet \cup LowerSet \cup Digits \cup {"_"} \cup Caseless

LowerMap == [c \in UpperSet |-> LOWER[CHOOSE i \in DOMAIN UPPER : UPPER[i] = c]]
UpperMap == [c \in LowerSet |-> UPPER[CHOOSE i \in DOMAIN LOWER : LOWER[i] = c]]

LowerChar(c) == IF c \in UpperSet THEN LowerMap[c] ELSE c
UpperChar(c) == IF c \in LowerSet THEN UpperMap[c] ELSE c

\* str.lower()
Lower(s) == [i \in DOMAIN s |-> LowerChar(s[i])]
\* str.upper()
Upper(s) == [i \in DOMAIN s |-> UpperChar(s[i])]

\* s.strip(chars): drop the leading and trailing characters that are in chars
StripChars(s, chars) ==
    LET keep == {i \in DOMAIN s : s[i] \notin chars}
    IN  IF keep = {} THEN << >>
        ELSE LET lo == CHOOSE i \in keep : \A j \in keep : i <= j
                 hi == CHOOSE i \in keep : \A j \in keep : j <= i
             IN  SubSeq(s, lo, hi)

\* str.strip()
Strip(s) == StripChars(s, Whitespace)

\* Python's `sub in s` on strings
Contains(s, sub) ==
    \E i \in 0..(Len(s) - Len(sub)) : SubSeq(s, i + 1, i + Len(sub)) = sub

\* x in list
InList(x, list) == \E i \in DOMAIN list : list[i] = x

\* list.index(x), for x in list
IndexOf(x, list) ==
    CHOOSE i \in DOMAIN list : list[i] = x /\ \A j \in 1..(i - 1) : list[j] # x

\* the load's and the lookup's normalisation of a term: strip().lower()
Normalize(s) == Lower(Strip(s))

(***************************************************************************)
(* Optional values (None / a value) and the insertion-ordered dict.        *)
(***************************************************************************)
None == << >>
Some(x) == <<x>>

\* dict as the sequence of its items in insertion order
EmptyDict == << >>

\* key in d
HasKey(d, k) == \E i \in DOMAIN d : d[i].key = k

\* d[key]
Lookup(d, k) == d[CHOOSE i \in DOMAIN d : d[i].key = k].val

\* d.get(key)
DictGet(d, k) == IF HasKey(d, k) THEN Some(Lookup(d, k)) ELSE None

\* d.setdefault(key, value): a present key keeps its value
DictSetDefault(d, k, v) ==
    IF HasKey(d, k) THEN d ELSE Append(d, [key |-> k, val |-> v])

\* d[key] = value: a present key keeps its place, a new key goes last
DictSet(d, k, v) ==
    IF HasKey(d, k)
    THEN [i \in DOMAIN d |-> IF d[i].key = k THEN [key |-> k, val |-> v] ELSE d[i]]
    ELSE Append(d, [key |-> k, val |-> v])

\* list(d): the keys in iteration order
Keys(d) == [i \in DOMAIN d |-> d[i].key]

(***************************************************************************)
(* Column names.                                                           *)
(***************************************************************************)
TERM        == <<"t","e","r","m">>
TRANSLATION == <<"t","r","a","n","s","l","a","t","i","o","n">>
NOTES       == <<"n","o","t","e","s">>
\* "ハングル"
HANGUL      == <<"U+30CF","U+30F3","U+30B0","U+30EB">>
\* "日本語"
NIHONGO     == <<"U+65E5","U+672C","U+8A9E">>
\* "中文"
ZHONGWEN    == <<"U+4E2D","U+6587">>

Languages == {"en", "ko", "zh"}

(***************************************************************************)
(* GlossaryManager.__init__                                                *)
(***************************************************************************)
\* one language's table; "header" is a key the constructor does not set
EmptyTable ==
    [data   |-> EmptyDict,
     header |-> None,
     path   |-> None,
     info   |-> [total_terms |-> 0, last_updated |-> None]]

(***************************************************************************)
(* load_glossary                                                           *)
(***************************************************************************)
Max(a, b) == IF a >= b THEN a ELSE b

\* header = [h.strip() for h in header]
StripAll(row) == [i \in DOMAIN row |-> Strip(row[i])]

\* normalized_header = [h.lower() for h in header]
LowerAll(row) == [i \in DOMAIN row |-> Lower(row[i])]

\* the header the column lookup runs on: lower-cased for en, literal for ko, zh
SchemaHeader(language_code, header) ==
    IF language_code = "en" THEN LowerAll(header) ELSE header

TermColumn(language_code) ==
    CASE language_code = "en" -> TERM
      [] language_code = "ko" -> HANGUL
      [] language_code = "zh" -> ZHONGWEN

\* TranslationColumn with the en column name for every language
TranslationColumnEnOnly(language_code) == TRANSLATION

TranslationColumn(language_code) ==
    CASE language_code = "en" -> TRANSLATION
      [] language_code = "ko" -> NIHONGO
      [] language_code = "zh" -> NIHONGO

\* the `if ... in header and ... in header` of each language branch
HeaderValid(language_code, header) ==
    /\ InList(TermColumn(language_code), SchemaHeader(language_code, header))
    /\ InList(TranslationColumn(language_code), SchemaHeader(language_code, header))

\* row[i].strip() where the row has the cell, "" where it has not
CellOr(row, i) == IF i <= Len(row) THEN Strip(row[i]) ELSE << >>

\* the en entry {"translation": ..., "notes": ...}
EnEntry(header, row) ==
    LET nh              == LowerAll(header)
        translation_idx == IndexOf(TRANSLATION, nh)
        notes           == IF InList(NOTES, nh) THEN CellOr(row, IndexOf(NOTES, nh))
                           ELSE << >>
    IN  [c \in {TRANSLATION, NOTES} |->
            IF c = TRANSLATION THEN Strip(row[translation_idx]) ELSE notes]

\* the ko / zh column_data: every header column; of two columns of one name
\* the later one is kept
ColumnData(header, row) ==
    [c \in {header[i] : i \in DOMAIN header} |->
        LET last == CHOOSE i \in DOMAIN header :
                        header[i] = c /\ \A j \in DOMAIN header : header[j] = c => j <= i
        IN  CellOr(row, last)]

\* RowValid without the `if term and translation` test
RowValidAnyCells(language_code, header, row) ==
    LET sh              == SchemaHeader(language_code, header)
        term_idx        == IndexOf(TermColumn(language_code), sh)
        translation_idx == IndexOf(TranslationColumn(language_code), sh)
    IN  Len(row) >= Max(term_idx, translation_idx)

\* whether a data row is stored: it has the term and the translation cell
\* and neither is empty after strip()
RowValid(language_code, header, row) ==
    LET sh              == SchemaHeader(language_code, header)
        term_idx        == IndexOf(TermColumn(language_code), sh)
        translation_idx == IndexOf(TranslationColumn(language_code), sh)
    IN  /\ Len(row) >= Max(term_idx, translation_idx)
        /\ Normalize(row[term_idx]) # << >>
        /\ Strip(row[translation_idx]) # << >>

\* StoreRow counting the entries instead of the rows stored
StoreRowCountingEntries(language_code, header, st, row) ==
    IF RowValid(language_code, header, row)
    THEN LET sh   == SchemaHeader(language_code, header)
             term == Normalize(row[IndexOf(TermColumn(language_code), sh)])
             entry == IF language_code = "en" THEN EnEntry(header, row)
                      ELSE ColumnData(header, row)
         IN  [data       |-> DictSet(st.data, term, entry),
              term_count |-> Len(DictSet(st.data, term, entry))]
    ELSE st

\* the body of `for row in csv_reader` for one row; st = [data, term_count]
StoreRow(language_code, header, st, row) ==
    IF RowValid(language_code, header, row)
    THEN LET sh   == SchemaHeader(language_code, header)
             term == Normalize(row[IndexOf(TermColumn(language_code), sh)])
             entry == IF language_code = "en" THEN EnEntry(header, row)
                      ELSE ColumnData(header, row)
         IN  [data       |-> DictSet(st.data, term, entry),
              term_count |-> st.term_count + 1]
    ELSE st

\* the loop over the data rows rows[from..to], in file order
RECURSIVE ProcessRows(_, _, _, _, _, _)
ProcessRows(language_code, header, st, rows, from, to) ==
    IF from > to THEN st
    ELSE ProcessRows(language_code, header,
                     StoreRow(language_code, header, st, rows[from]),
                     rows, from + 1, to)

\* the `if valid_file:` block: total_terms, last_updated and path are set on
\* success only
Publish(table, valid_file, term_count, file_path, time) ==
    IF valid_file
    THEN [table EXCEPT !.info = [total_terms |-> term_count, last_updated |-> Some(time)],
                       !.path = Some(file_path)]
    ELSE table

(* A file on disk: path; readable (open() succeeds); rows, the records      *)
(* csv.reader yields, the header first; badAt, the number of the record at  *)
(* which reading raises (a decoding error, csv.Error), 0 when none does.    *)
(*                                                                          *)
(* The result: the table after the call and the value returned.             *)
LoadTable(table, language_code, file, time) ==
    LET cleared == [table EXCEPT !.data = EmptyDict]
    IN  IF ~file.readable \/ file.badAt = 1
        THEN \* open() or next() raises: except Exception
             [table |-> cleared, ok |-> FALSE]
        ELSE IF file.rows = << >>
        THEN \* except StopIteration
             [table |-> cleared, ok |-> FALSE]
        ELSE
        LET header   == StripAll(file.rows[1])
            withHdr  == [cleared EXCEPT !.header = Some(header)]
            valid    == HeaderValid(language_code, header)
            stop     == IF file.badAt = 0 THEN Len(file.rows) ELSE file.badAt - 1
            st       == IF valid
                        THEN ProcessRows(language_code, header,
                                         [data |-> EmptyDict, term_count |-> 0],
                                         file.rows, 2, stop)
                        ELSE [data |-> EmptyDict, term_count |-> 0]
            filled   == [withHdr EXCEPT !.data = st.data]
        IN  IF valid /\ file.badAt # 0
            THEN \* reading a data row raises: except Exception
                 [table |-> filled, ok |-> FALSE]
            ELSE [table |-> Publish(filled, valid, st.term_count, file.path, time),
                  ok    |-> valid]

(***************************************************************************)
(* set_current_language, get_term                                          *)
(***************************************************************************)
\* `language_code in self.glossaries`
Supported(language_code) == language_code \in Languages

\* get_term without strip()
get_term_no_strip(tables, language, term) == DictGet(tables[language].data, Lower(term))

\* get_term without lower()
get_term_no_lower(tables, language, term) == DictGet(tables[language].data, Strip(term))

\* get_term: the active table's data.get(term.strip().lower())
get_term(tables, language, term) == DictGet(tables[language].data, Normalize(term))

(***************************************************************************)
(* find_terms_in_text                                                      *)
(***************************************************************************)
\* case_sensitive_terms = ["AND", "WHO"]
case_sensitive_terms == << <<"A","N","D">>, <<"W","H","O">> >>

\* the maximal runs of the characters i with mask[i], in text order
RECURSIVE RunsFrom(_, _, _, _, _)
RunsFrom(s, mask, i, cur, acc) ==
    IF i > Len(s)
    THEN IF cur = << >> THEN acc ELSE Append(acc, cur)
    ELSE IF mask[i]
    THEN RunsFrom(s, mask, i + 1, Append(cur, s[i]), acc)
    ELSE RunsFrom(s, mask, i + 1, << >>, IF cur = << >> THEN acc ELSE Append(acc, cur))

\* WordTokens splitting at whitespace only
WordTokensAtWhitespace(s) ==
    RunsFrom(s, [i \in DOMAIN s |-> s[i] \notin Whitespace], 1, << >>, << >>)

\* re.findall(r'\b\w+\b', s): the maximal runs of \w characters
WordTokens(s) == RunsFrom(s, [i \in DOMAIN s |-> s[i] \in WordChars], 1, << >>, << >>)

\* s.split(): the maximal runs of non-whitespace characters
SplitWhitespace(s) ==
    RunsFrom(s, [i \in DOMAIN s |-> s[i] \notin Whitespace], 1, << >>, << >>)

\* clean_words = [word.strip(".,!?:;\"'()[]{}<>") for word in words]
CleanWords(words) == [i \in DOMAIN words |-> StripChars(words[i], KoPunct)]

\* re.findall(r'\b' + re.escape(special_term) + r'\b', text) is non-empty;
\* special_term begins and ends with a \w character
ExactWordMatch(text, special_term) ==
    \E i \in 0..(Len(text) - Len(special_term)) :
        /\ SubSeq(text, i + 1, i + Len(special_term)) = special_term
        /\ (i = 0 \/ text[i] \notin WordChars)
        /\ (i + Len(special_term) = Len(text)
              \/ text[i + Len(special_term) + 1] \notin WordChars)

\* entry["translation"] and entry["notes"] do not raise KeyError
HasFields(entry) == TRANSLATION \in DOMAIN entry /\ NOTES \in DOMAIN entry

\* the dict {"term": ..., "translation": ..., "notes": ...} a scan appends
Match(display, entry) ==
    [c \in {TERM, TRANSLATION, NOTES} |->
        IF c = TERM THEN display ELSE entry[c]]

(* found_terms.add(key); results.append({"term": display, "translation":    *)
(* glossary_data[key]["translation"], "notes": glossary_data[key]["notes"]})*)
(* st = [found, results, raised]; raised: a KeyError left the function      *)
Emit(st, glossary_data, display, key) ==
    IF st.raised THEN st
    ELSE LET entry == Lookup(glossary_data, key)
         IN  IF ~HasFields(entry)
             THEN [st EXCEPT !.found = @ \cup {key}, !.raised = TRUE]
             ELSE [found   |-> st.found \cup {key},
                   results |-> Append(st.results, Match(display, entry)),
                   raised  |-> FALSE]

\* EnWordEmitted without the skip of the case-sensitive terms
EnWordEmittedNoSkip(st, glossary_data, word) ==
    HasKey(glossary_data, word) /\ word \notin st.found

\* en, `for word in words`: the condition under which the word is emitted
EnWordEmitted(st, glossary_data, word) ==
    /\ HasKey(glossary_data, word)
    /\ word \notin st.found
    /\ ~InList(Upper(word), case_sensitive_terms)

RECURSIVE EnWordPass(_, _, _, _)
EnWordPass(st, glossary_data, words, i) ==
    IF i > Len(words) THEN st
    ELSE EnWordPass(IF EnWordEmitted(st, glossary_data, words[i])
                    THEN Emit(st, glossary_data, words[i], words[i])
                    ELSE st,
                    glossary_data, words, i + 1)

\* EnMultiWordEmitted without the containment test
EnMultiWordEmittedAnywhere(st, text_lower, term) ==
    InList(" ", term) /\ term \notin st.found

\* en, `for term in glossary_data`: the multi-word terms
EnMultiWordEmitted(st, text_lower, term) ==
    /\ InList(" ", term)
    /\ Contains(text_lower, term)
    /\ term \notin st.found

RECURSIVE EnMultiWordPass(_, _, _, _, _)
EnMultiWordPass(st, glossary_data, keys, text_lower, i) ==
    IF i > Len(keys) THEN st
    ELSE EnMultiWordPass(IF EnMultiWordEmitted(st, text_lower, keys[i])
                         THEN Emit(st, glossary_data, keys[i], keys[i])
                         ELSE st,
                         glossary_data, keys, text_lower, i + 1)

\* en, `for special_term in case_sensitive_terms`
EnSpecialEmitted(st, glossary_data, text, special_term) ==
    /\ HasKey(glossary_data, Lower(special_term))
    /\ ExactWordMatch(text, special_term)
    /\ Lower(special_term) \notin st.found

RECURSIVE EnSpecialPass(_, _, _, _)
EnSpecialPass(st, glossary_data, text, i) ==
    IF i > Len(case_sensitive_terms) THEN st
    ELSE EnSpecialPass(IF EnSpecialEmitted(st, glossary_data, text, case_sensitive_terms[i])
                       THEN Emit(st, glossary_data, case_sensitive_terms[i],
                                 Lower(case_sensitive_terms[i]))
                       ELSE st,
                       glossary_data, text, i + 1)

\* ko, `for word in clean_words`
KoWordEmitted(st, glossary_data, word) ==
    HasKey(glossary_data, word) /\ word \notin st.found

RECURSIVE KoWordPass(_, _, _, _)
KoWordPass(st, glossary_data, words, i) ==
    IF i > Len(words) THEN st
    ELSE KoWordPass(IF KoWordEmitted(st, glossary_data, words[i])
                    THEN Emit(st, glossary_data, words[i], words[i])
                    ELSE st,
                    glossary_data, words, i + 1)

\* SubstringEmitted without the found_terms test
SubstringEmittedNoDedupe(st, text_lower, term) == Contains(text_lower, term)

\* ko and zh, `for term in glossary_data`: every term, by containment
SubstringEmitted(st, text_lower, term) ==
    Contains(text_lower, term) /\ term \notin st.found

RECURSIVE SubstringPass(_, _, _, _, _)
SubstringPass(st, glossary_data, keys, text_lower, i) ==
    IF i > Len(keys) THEN st
    ELSE SubstringPass(IF SubstringEmitted(st, text_lower, keys[i])
                       THEN Emit(st, glossary_data, keys[i], keys[i])
                       ELSE st,
                       glossary_data, keys, text_lower, i + 1)

\* found_terms = set(); results = []
ScanStart == [found |-> {}, results |-> << >>, raised |-> FALSE]

\* the value a call returns, or raised = TRUE when a KeyError leaves it
find_terms_in_text(tables, language, text) ==
    LET glossary_data == tables[language].data
        text_lower    == Lower(text)
        keys          == Keys(glossary_data)
        st ==
          IF text = << >> \/ glossary_data = EmptyDict THEN ScanStart
          ELSE IF language = "en"
          THEN EnSpecialPass(
                 EnMultiWordPass(
                   EnWordPass(ScanStart, glossary_data, WordTokens(text_lower), 1),
                   glossary_data, keys, text_lower, 1),
                 glossary_data, text, 1)
          ELSE IF language = "ko"
          THEN SubstringPass(
                 KoWordPass(ScanStart, glossary_data,
                            CleanWords(SplitWhitespace(text_lower)), 1),
                 glossary_data, keys, text_lower, 1)
          ELSE SubstringPass(ScanStart, glossary_data, keys, text_lower, 1)
    IN  [raised |-> st.raised, value |-> IF st.raised THEN << >> ELSE st.results]

(***************************************************************************)
(* The inputs: the glossary files on disk and the texts scanned.           *)
(***************************************************************************)
File(path, rows) == [path |-> path, readable |-> TRUE, rows |-> rows, badAt |-> 0]

\* the file with reading raising at record n
FailingAt(file, n) == [file EXCEPT !.badAt = n]

\* a path open() raises on
Unreadable(path) == [path |-> path, readable |-> FALSE, rows |-> << >>, badAt |-> 0]

\* "가", "나": Hangul syllables
GA == "U+AC00"
NA == "U+B098"
\* "メモ"
MEMO == <<"U+30E1", "U+30E2">>

\* header " Term",TRANSLATION,notes; keys and, op, "a b", who, x-x, x
EnMain ==
    File("Ja_En_Glossary.csv",
         << << <<" ","T","e","r","m">>, Upper(TRANSLATION), NOTES >>,
            << <<" ","A","N","D"," ">>, <<"1">>, <<"n">> >>,
            << <<"o","p">>, <<"2">> >>,
            << <<"a"," ","b">>, <<"3">>, <<" ">> >>,
            << <<"w","h","o">>, <<"4">>, <<"m">> >>,
            << <<"x","-","x">>, <<"5">>, << >> >>,
            << <<"x">>, <<"6">> >> >>)

\* header translation,term (no notes); rows with an empty translation, an
\* empty term, a missing cell, and two rows of one term
EnDup ==
    File("resources/Ja_En_Glossary.csv",
         << << TRANSLATION, TERM >>,
            << <<"1">>, <<"o","p">> >>,
            << <<" ">>, <<"a"," ","b">> >>,
            << <<"2">>, <<" ">> >>,
            << <<"3">> >>,
            << >>,
            << <<"4">>, <<"O","P"," ">> >>,
            << <<"5">>, <<"a","n","d">> >> >>)

\* the header lacks translation
EnBadHeader ==
    File("Ja_En_Glossary.csv",
         << << TERM, NOTES >>,
            << <<"o","p">>, <<"1">> >> >>)

\* a header and no data row
EnHeaderOnly == File("resources/Ja_En_Glossary.csv", << << TERM, TRANSLATION >> >>)

\* no record at all
EnEmpty == File("Ja_En_Glossary.csv", << >>)

\* header ハングル,日本語,メモ
KoMain ==
    File("Ja_Ko_Glossary.csv",
         << << HANGUL, NIHONGO, MEMO >>,
            << <<GA>>, <<"1">>, <<"m">> >>,
            << <<GA, NA>>, <<"2">> >> >>)

\* header 日本語,ハングル,translation,notes; keys 가나, 가, ab, 나
KoStd ==
    File("resources/Ja_Ko_Glossary.csv",
         << << NIHONGO, <<" ">> \o HANGUL, TRANSLATION, NOTES >>,
            << <<"1">>, <<GA, NA>>, <<"t">>, <<"n">> >>,
            << <<"2">>, <<GA>>, <<"u">> >>,
            << <<"3">>, <<" ","A","B">>, <<"v">>, <<"m">> >>,
            << << >>, <<"x">>, <<"w">>, <<"m">> >>,
            << <<"4">>, <<NA>>, <<"w">>, << >> >>,
            << <<"5">>, <<GA>>, <<"x">>, <<"k">> >> >>)

\* the header lacks 日本語
KoBadHeader ==
    File("Ja_Ko_Glossary.csv",
         << << HANGUL, TRANSLATION, NOTES >>,
            << <<GA>>, <<"1">>, <<"n">> >> >>)

\* "中", "文"
ZHONG == "U+4E2D"
WEN   == "U+6587"

\* header 中文,日本語
ZhMain ==
    File("Ja_Zh_Glossary.csv",
         << << ZHONGWEN, NIHONGO >>,
            << <<ZHONG>>, <<"1">> >>,
            << <<ZHONG, WEN>>, <<"2">> >> >>)

\* header 中文,日本語,notes,translation; keys 中文, 中, ab
ZhStd ==
    File("resources/Ja_Zh_Glossary.csv",
         << << ZHONGWEN, NIHONGO, NOTES, TRANSLATION >>,
            << <<ZHONG, WEN>>, <<"1">>, <<"n">>, <<"t">> >>,
            << <<ZHONG>>, <<"2">>, <<"m">>, <<"u">> >>,
            << <<"A","b">>, <<"3">>, << >>, <<"v">> >>,
            << <<WEN>>, <<" ">>, <<"k">>, <<"w">> >>,
            << <<ZHONG, " ">>, <<"4">>, <<"k">> >> >>)

\* the en header in the zh file
ZhBadHeader ==
    File("Ja_Zh_Glossary.csv",
         << << TERM, TRANSLATION >>,
            << <<ZHONG>>, <<"1">> >> >>)

\* what load_glossary may find on disk for a language
Catalogue(language_code) ==
    CASE language_code = "en" ->
           {EnMain, EnDup, EnBadHeader, EnHeaderOnly, EnEmpty,
            FailingAt(EnMain, 4), Unreadable("Ja_En_Glossary.csv")}
      [] language_code = "ko" ->
           {KoMain, KoStd, KoBadHeader, FailingAt(KoStd, 3), FailingAt(KoStd, 1)}
      [] language_code = "zh" ->
           {ZhMain, ZhStd, ZhBadHeader, FailingAt(ZhStd, 4),
            Unreadable("Ja_Zh_Glossary.csv")}
      [] OTHER -> {EnMain}

\* the language codes the callers pass; "fr" is not a key of self.glossaries
LanguageCodes == Languages \cup {"fr"}

\* the pieces the scanned texts are made of
Pieces(language) ==
    CASE language = "en" ->
           {<<"A","N","D">>, <<"a","n","d">>, <<"A","n","d">>, <<"W","H","O">>,
            <<"O","p">>, <<"a"," ","b">>, <<"x">>, <<" ">>, <<"-">>}
      [] language = "ko" ->
           {<<GA>>, <<NA>>, <<GA, NA>>, <<"A","b">>, <<"x">>, <<" ">>, <<".">>}
      [] OTHER ->
           {<<ZHONG>>, <<WEN>>, <<"a","B">>, <<"x">>, <<" ">>}

\* the texts of at most n pieces
RECURSIVE Texts(_, _)
Texts(language, n) ==
    IF n = 0 THEN {<< >>}
    ELSE LET shorter == Texts(language, n - 1)
         IN  shorter \cup {t \o p : t \in shorter, p \in Pieces(language)}

\* the terms looked up
Terms(language) ==
    CASE language = "en" -> {<<" ","A","N","D">>, <<"a","n","d">>, <<"O","p"," ">>,
                             <<"O","P">>, <<"x">>}
      [] language = "ko" -> {<<GA, NA, " ">>, <<GA, NA>>, <<"A","B">>, <<" ","a","b">>,
                             << >>}
      [] OTHER           -> {<<" ", ZHONG>>, <<ZHONG>>, <<"a","B">>, <<"A","B"," ">>,
                             <<"x">>}

(***************************************************************************)
(* The state machine.                                                      *)
(***************************************************************************)
Call(op, arg, raised, value) == [op |-> op, arg |-> arg, raised |-> raised, value |-> value]

\* no call is in progress: the caller is between two calls
NoCall == Call("none", << >>, FALSE, << >>)

\* the state after GlossaryManager(); now is the clock datetime.now() reads,
\* ret the call just made with its result, until the caller has taken it
Init ==
    /\ glossaries = [l \in Languages |-> EmptyTable]
    /\ current_language = "en"
    /\ now = 0
    /\ ret = NoCall

\* load_glossary(file.path, language_code); the clock advances one tick a call
load_glossary(language_code, file) ==
    /\ now' = now + 1
    /\ IF Supported(language_code)
       THEN LET r == LoadTable(glossaries[language_code], language_code, file, now')
            IN  /\ glossaries' = [glossaries EXCEPT ![language_code] = r.table]
                /\ ret' = Call("load_glossary",
                               [language_code |-> language_code, file |-> file],
                               FALSE, r.ok)
       ELSE \* self.glossaries[language_code] raises KeyError: except Exception
            /\ glossaries' = glossaries
            /\ ret' = Call("load_glossary",
                           [language_code |-> language_code, file |-> file],
                           FALSE, FALSE)
    /\ UNCHANGED current_language

Load(limit) ==
    /\ ret.op = "none"
    /\ now < limit
    /\ \E language_code \in LanguageCodes :
         \E file \in Catalogue(language_code) : load_glossary(language_code, file)

\* set_current_language falling back to "en" on a code it does not know
set_current_language_reset(language_code) ==
    /\ current_language' = IF Supported(language_code) THEN language_code ELSE "en"
    /\ ret' = Call("set_current_language", language_code, FALSE, Supported(language_code))
    /\ UNCHANGED <<glossaries, now>>

set_current_language(language_code) ==
    /\ current_language' = IF Supported(language_code) THEN language_code
                           ELSE current_language
    /\ ret' = Call("set_current_language", language_code, FALSE, Supported(language_code))
    /\ UNCHANGED <<glossaries, now>>

SetLanguage ==
    /\ ret.op = "none"
    /\ \E language_code \in LanguageCodes : set_current_language(language_code)

GetTerm ==
    /\ ret.op = "none"
    /\ \E term \in Terms(current_language) :
        /\ ret' = Call("get_term", term, FALSE, get_term(glossaries, current_language, term))
        /\ UNCHANGED <<glossaries, current_language, now>>

Find(pieces) ==
    /\ ret.op = "none"
    /\ \E text \in Texts(current_language, pieces) :
        LET r == find_terms_in_text(glossaries, current_language, text)
        IN  /\ ret' = Call("find_terms_in_text", text, r.raised, r.value)
            /\ UNCHANGED <<glossaries, current_language, now>>

\* the caller has taken the result of its call and goes on to the next one
Return ==
    /\ ret.op # "none"
    /\ ret' = NoCall
    /\ UNCHANGED <<glossaries, current_language, now>>

\* a session: loads in any order, texts of one piece
Next ==
    \/ Return
    \/ Load(MaxLoads)
    \/ SetLanguage
    \/ GetTerm
    \/ Find(1)

Spec == Init /\ [][Next]_vars

\* scanning: at most one glossary loaded, texts of up to MaxPieces pieces
ScanNext ==
    \/ Return
    \/ Load(1)
    \/ SetLanguage
    \/ GetTerm
    \/ Find(MaxPieces)

SpecScan == Init /\ [][ScanNext]_vars

(***************************************************************************)
(* The claims.                                                             *)
(***************************************************************************)
\* the call just made is a scan / a scan that returned its list
Scanned  == ret.op = "find_terms_in_text"
Returned == Scanned /\ ~ret.raised

\* the active table's entries
ActiveData == glossaries[current_language].data

\* the terms of the Matches returned, in order
ReturnedTerms == [i \in DOMAIN ret.value |-> ret.value[i][TERM]]

\* the keys of d that occur in the lower-cased text, in iteration order
KeysInText(d, text) ==
    LET InText(k) == Contains(Lower(text), k)
    IN  SelectSeq(Keys(d), InText)

\* C1: find_terms_in_text and get_term return a value and never raise, in
\* every state loads and language switches reach, for each active language,
\* also when the text contains a key of the loaded ko or zh glossary.
C1_ScanAndLookupNeverRaise ==
    ret.op \in {"find_terms_in_text", "get_term"} => ~ret.raised

\* C2: every Match returned carries the matched term and all display fields
\* of the term's entry: for en the translation and the notes, for ko and zh
\* the cell of every header column under the literal header name.
C2_MatchCarriesEntryFields ==
    Returned =>
      \A i \in DOMAIN ret.value :
        LET m     == ret.value[i]
            entry == Lookup(ActiveData, Normalize(m[TERM]))
        IN  IF current_language = "en"
            THEN m[TRANSLATION] = entry[TRANSLATION] /\ m[NOTES] = entry[NOTES]
            ELSE \A c \in DOMAIN entry : c \in DOMAIN m /\ m[c] = entry[c]

\* C3: with zh active the scan returns exactly one Match for each glossary
\* key that is a substring of the lower-cased text and none for another key,
\* in glossary iteration order.
C3_ZhOneMatchPerKeyInText ==
    (Scanned /\ current_language = "zh") =>
      /\ ~ret.raised
      /\ ReturnedTerms = KeysInText(ActiveData, ret.arg)

\* the zh scan where it returns: the keys in the text, in iteration order
ZhReturnedKeysInText ==
    (Returned /\ current_language = "zh") =>
      ReturnedTerms = KeysInText(ActiveData, ret.arg)

\* w occurs in text as a whole word: no \w character is next to it
OccursAsWord(text, w) ==
    \E i \in 1..(Len(text) - Len(w) + 1) :
        /\ SubSeq(text, i, i + Len(w) - 1) = w
        /\ (i = 1 \/ text[i - 1] \notin WordChars)
        /\ (i + Len(w) - 1 = Len(text) \/ text[i + Len(w)] \notin WordChars)

\* the number of places where w occurs in text
Occurrences(text, w) ==
    Cardinality({i \in 1..(Len(text) - Len(w) + 1) : SubSeq(text, i, i + Len(w) - 1) = w})

\* the upper-case forms of the case-sensitive-listed keys 'and' and 'who'
CaseSensitiveListed == {<<"A","N","D">>, <<"W","H","O">>}

\* C4: with en active and 'and' or 'who' a key, the scan returns a Match for
\* the key iff 'AND' / 'WHO' occurs word-bounded in the original text; the
\* Match displays the upper-case form; the lower-case token pass never emits
\* the key.
C4_CaseSensitiveExactOnly ==
    (Scanned /\ current_language = "en") =>
      \A special \in CaseSensitiveListed :
        HasKey(ActiveData, Lower(special)) =>
          LET hits == {i \in DOMAIN ret.value :
                         Normalize(ret.value[i][TERM]) = Lower(special)}
          IN  /\ ~ret.raised
              /\ (hits # {}) <=> OccursAsWord(ret.arg, special)
              /\ \A i \in hits : ret.value[i][TERM] = special

\* the text holds 'AND' and 'and' as words, and the Match shows 'AND'
C4_Witness ==
    /\ Returned /\ current_language = "en"
    /\ OccursAsWord(ret.arg, <<"A","N","D">>)
    /\ OccursAsWord(ret.arg, <<"a","n","d">>)
    /\ \E i \in DOMAIN ret.value : ret.value[i][TERM] = <<"A","N","D">>

\* C5: after a load_glossary of a supported language that returns failure
\* the language's entries are empty.
C5_FailedLoadLeavesEmpty ==
    (ret.op = "load_glossary" /\ Supported(ret.arg.language_code) /\ ret.value = FALSE)
      => glossaries[ret.arg.language_code].data = EmptyDict

\* C6: no result holds two Matches of one normalized term.
C6_NoTermTwice ==
    Returned =>
      \A i, j \in DOMAIN ret.value :
        i # j => Normalize(ret.value[i][TERM]) # Normalize(ret.value[j][TERM])

\* ko: a Match whose term is a token of the text and occurs in it twice
C6_Witness ==
    /\ Returned /\ current_language = "ko"
    /\ \E i \in DOMAIN ret.value :
         /\ InList(ret.value[i][TERM], CleanWords(SplitWhitespace(Lower(ret.arg))))
         /\ Occurrences(Lower(ret.arg), ret.value[i][TERM]) >= 2

\* C7: get_term of the term of every Match returned is an entry, the one
\* stored under the normalized term.
C7_MatchRetrievable ==
    Returned =>
      \A i \in DOMAIN ret.value :
        LET found == get_term(glossaries, current_language, ret.value[i][TERM])
        IN  /\ found # None
            /\ HasKey(ActiveData, Normalize(ret.value[i][TERM]))
            /\ found = Some(Lookup(ActiveData, Normalize(ret.value[i][TERM])))

\* a Match whose displayed term is not the key itself
C7_Witness ==
    /\ Returned
    /\ \E i \in DOMAIN ret.value : ~HasKey(ActiveData, ret.value[i][TERM])

\* C8: the normalized term of every Match returned is a key of the active
\* glossary and a substring of the lower-cased text; an empty text or an
\* empty active glossary gives the empty result.
C8_ScanSound ==
    Scanned =>
      /\ \A i \in DOMAIN ret.value :
           /\ HasKey(ActiveData, Normalize(ret.value[i][TERM]))
           /\ Contains(Lower(ret.arg), Normalize(ret.value[i][TERM]))
      /\ (ret.arg = << >> \/ ActiveData = EmptyDict) => (~ret.raised /\ ret.value = << >>)

\* a result with a Match, while another key is not in the text
C8_Witness ==
    /\ Returned /\ ret.value # << >>
    /\ \E i \in DOMAIN ActiveData : ~Contains(Lower(ret.arg), ActiveData[i].key)

\* the data rows of an en file that have the term and the translation cell,
\* both non-empty after trimming
EnValidRows(file) ==
    LET nh  == LowerAll(StripAll(file.rows[1]))
        ti  == IndexOf(TERM, nh)
        tri == IndexOf(TRANSLATION, nh)
    IN  {i \in 2..Len(file.rows) :
           /\ Len(file.rows[i]) >= ti /\ Len(file.rows[i]) >= tri
           /\ Strip(file.rows[i][ti]) # << >>
           /\ Strip(file.rows[i][tri]) # << >>}

\* C9: after a successful load of an en file, total_terms is the number of
\* its valid data rows.
C9_EnTermCountIsValidRows ==
    (ret.op = "load_glossary" /\ ret.arg.language_code = "en" /\ ret.value = TRUE)
      => glossaries["en"].info.total_terms = Cardinality(EnValidRows(ret.arg.file))

\* a loaded en file with rows left out and two rows of one term
C9_Witness ==
    /\ ret.op = "load_glossary" /\ ret.arg.language_code = "en" /\ ret.value = TRUE
    /\ glossaries["en"].info.total_terms < Len(ret.arg.file.rows) - 1
    /\ glossaries["en"].info.total_terms > Len(glossaries["en"].data)

\* the trimmed header lacks a required column of the language
LacksRequired(language_code, header) ==
    CASE language_code = "en" ->
           ~(InList(TERM, LowerAll(header)) /\ InList(TRANSLATION, LowerAll(header)))
      [] language_code = "ko" -> ~(InList(HANGUL, header) /\ InList(NIHONGO, header))
      [] language_code = "zh" -> ~(InList(ZHONGWEN, header) /\ InList(NIHONGO, header))

\* the call just made loaded a file whose header was read and lacks a
\* required column
LoadedLackingHeader ==
    /\ ret.op = "load_glossary" /\ Supported(ret.arg.language_code)
    /\ ret.arg.file.readable /\ ret.arg.file.badAt # 1 /\ ret.arg.file.rows # << >>
    /\ LacksRequired(ret.arg.language_code, StripAll(ret.arg.file.rows[1]))

\* C10: a load of a file whose header lacks the required columns returns
\* failure, and a table never loaded with success has total_terms 0 after it.
C10_MissingColumnsFail ==
    LoadedLackingHeader =>
      /\ ret.value = FALSE
      /\ glossaries[ret.arg.language_code].path = None
           => glossaries[ret.arg.language_code].info.total_terms = 0

\* such a load of a file with data rows into a table never loaded
C10_Witness ==
    /\ LoadedLackingHeader
    /\ Len(ret.arg.file.rows) >= 2
    /\ glossaries[ret.arg.language_code].path = None
    /\ ret.value = FALSE

\* C11: set_current_language(code) returns true and makes code the active
\* language when code is en, ko or zh; otherwise it returns false and the
\* active language is the one before the call; the tables are unchanged.
C11_SetLanguageFrame ==
    [][ret'.op = "set_current_language" =>
         /\ glossaries' = glossaries
         /\ IF ret'.arg \in {"en", "ko", "zh"}
            THEN ret'.value = TRUE /\ current_language' = ret'.arg
            ELSE ret'.value = FALSE /\ current_language' = current_language]_vars

\* an unknown code refused while ko is active and a glossary is loaded
C11_Witness ==
    /\ ret.op = "set_current_language" /\ ret.arg = "fr" /\ ret.value = FALSE
    /\ current_language = "ko"
    /\ \E l \in Languages : glossaries[l].data # EmptyDict

\* C12: get_term returns the same result for inputs equal after trimming and
\* lower-casing; a repeated call returns the same result and changes neither
\* the tables nor the active language.
C12_LookupStable ==
    /\ [](ret.op = "get_term" =>
            \A t \in Terms(current_language) :
              Normalize(t) = Normalize(ret.arg)
                => get_term(glossaries, current_language, t) = ret.value)
    /\ [][ret'.op = "get_term" =>
            /\ glossaries' = glossaries
            /\ current_language' = current_language
            /\ get_term(glossaries', current_language', ret'.arg) = ret'.value]_vars

\* an entry found under an input that another input normalizes to
C12_Witness ==
    /\ ret.op = "get_term" /\ ret.value # None
    /\ \E t \in Terms(current_language) : t # ret.arg /\ Normalize(t) = Normalize(ret.arg)

\* C13: a load rejected because the required header columns are absent leaves
\* the language's table with no entries and with the header, path,
\* total_terms and last_updated it had before the call.
C13_RejectedLoadKeepsMetadata ==
    [][LoadedLackingHeader' =>
         LET language_code == ret'.arg.language_code IN
           /\ glossaries'[language_code].data = EmptyDict
           /\ glossaries'[language_code].header = glossaries[language_code].header
           /\ glossaries'[language_code].path = glossaries[language_code].path
           /\ glossaries'[language_code].info = glossaries[language_code].info]_vars

\* C14: in every state, for every language, every key of the table is
\* non-empty and equal to its own trimmed lower-cased form, and the entry's
\* translation cell is non-empty.
C14_KeysNormalizedCellsNonEmpty ==
    \A language \in Languages :
      \A i \in DOMAIN glossaries[language].data :
        LET item == glossaries[language].data[i] IN
          /\ item.key # << >>
          /\ Normalize(item.key) = item.key
          /\ item.val[TranslationColumn(language)] # << >>

\* a table loaded from a file that has rows with an empty term, an empty
\* translation and a term written in capitals with a trailing blank
C14_Witness ==
    /\ ret.op = "load_glossary" /\ ret.value = TRUE /\ ret.arg.file = EnDup
    /\ Len(glossaries["en"].data) = 2
    /\ \E language \in {"ko", "zh"} : glossaries[language].data # EmptyDict

\* the numbers of the valid data rows of the file whose normalized term is key
RowsOfTerm(language_code, file, key) ==
    LET header == StripAll(file.rows[1])
        sh     == SchemaHeader(language_code, header)
    IN  {i \in 2..Len(file.rows) :
           /\ RowValid(language_code, header, file.rows[i])
           /\ Normalize(file.rows[i][IndexOf(TermColumn(language_code), sh)]) = key}

\* the cells of one row as an entry holds them
RowFields(language_code, file, i) ==
    LET header == StripAll(file.rows[1])
    IN  IF language_code = "en"
        THEN [c \in {TRANSLATION, NOTES} |->
                LET nh == LowerAll(header) IN
                  IF InList(c, nh) THEN CellOr(file.rows[i], IndexOf(c, nh)) ELSE << >>]
        ELSE [c \in {header[j] : j \in DOMAIN header} |->
                CellOr(file.rows[i], IndexOf(c, header))]

\* the load just made returned success
LoadedOk == ret.op = "load_glossary" /\ ret.value = TRUE

\* C15: after a successful load the entry under a key holds the fields of the
\* last valid row of the file with that normalized term, for en, ko and zh.
C15_LastRowWins ==
    LoadedOk =>
      LET language_code == ret.arg.language_code
          file          == ret.arg.file
          data          == glossaries[language_code].data
      IN  /\ \A i \in DOMAIN data :
               LET rows == RowsOfTerm(language_code, file, data[i].key) IN
                 /\ rows # {}
                 /\ \E last \in rows :
                      /\ \A r \in rows : r <= last
                      /\ data[i].val = RowFields(language_code, file, last)
          /\ \A r \in 2..Len(file.rows) :
               \A key \in {Normalize(file.rows[r][c]) : c \in DOMAIN file.rows[r]} :
                 r \in RowsOfTerm(language_code, file, key) => HasKey(data, key)

\* a key of the file loaded has two valid rows with different fields
TermRepeated(language_code, file) ==
    \E i, j \in 2..Len(file.rows) :
      \E key \in {Normalize(file.rows[i][c]) : c \in DOMAIN file.rows[i]} :
        /\ i < j
        /\ {i, j} \subseteq RowsOfTerm(language_code, file, key)
        /\ RowFields(language_code, file, i) # RowFields(language_code, file, j)

\* a zh file with a repeated term loaded while the en and the ko table hold
\* files with repeated terms too
C15_Witness ==
    /\ LoadedOk /\ ret.arg.language_code = "zh" /\ TermRepeated("zh", ret.arg.file)
    /\ glossaries["en"].path = Some(EnDup.path) /\ Len(glossaries["en"].data) = 2
    /\ glossaries["en"].info.total_terms = 3
    /\ glossaries["ko"].path = Some(KoStd.path)
    /\ glossaries["ko"].info.total_terms > Len(glossaries["ko"].data)
    /\ glossaries["ko"].data # EmptyDict

\* the maximal runs of the positions of s at which keep holds, as strings, in
\* text order
MaximalRuns(s, keep) ==
    LET Starts   == {i \in DOMAIN s : keep[i] /\ (i = 1 \/ ~keep[i - 1])}
        End(i)   == CHOOSE j \in i..Len(s) :
                       /\ \A k \in i..j : keep[k]
                       /\ (j = Len(s) \/ ~keep[j + 1])
        Nth(n)   == CHOOSE i \in Starts : Cardinality({k \in Starts : k < i}) = n - 1
    IN  [n \in 1..Cardinality(Starts) |-> SubSeq(s, Nth(n), End(Nth(n)))]

\* the whitespace-delimited tokens of the lower-cased text, the punctuation
\* set stripped from both ends of each
KoTokens(text) ==
    LET text_lower == Lower(text)
        runs == MaximalRuns(text_lower,
                            [i \in DOMAIN text_lower |-> text_lower[i] \notin Whitespace])
    IN  [n \in DOMAIN runs |-> StripChars(runs[n], KoPunct)]

\* terms lists, each once, the keys of data in the text: first those equal to
\* a token, by first occurrence, then the others, in iteration order
TokensThenSubstrings(terms, data, text) ==
    LET tokens   == KoTokens(text)
        IsTok(k) == InList(k, tokens)
    IN  /\ {terms[i] : i \in DOMAIN terms}
              = {data[i].key : i \in {j \in DOMAIN data : Contains(Lower(text), data[j].key)}}
        /\ \A i, j \in DOMAIN terms :
             i < j =>
               /\ terms[i] # terms[j]
               /\ CASE IsTok(terms[i]) /\ IsTok(terms[j]) ->
                         IndexOf(terms[i], tokens) < IndexOf(terms[j], tokens)
                    [] IsTok(terms[i]) /\ ~IsTok(terms[j]) -> TRUE
                    [] ~IsTok(terms[i]) /\ IsTok(terms[j]) -> FALSE
                    [] OTHER ->
                         IndexOf(terms[i], Keys(data)) < IndexOf(terms[j], Keys(data))

\* C16: with ko active the scan returns the keys matched as tokens, in order
\* of first occurrence, then the keys matched only as substrings, in glossary
\* iteration order, every key once.
C16_KoTokensThenSubstrings ==
    (Scanned /\ current_language = "ko") =>
      /\ ~ret.raised
      /\ TokensThenSubstrings(ReturnedTerms, ActiveData, ret.arg)

\* the ko scan where it returns: tokens first, then substrings, each once
KoReturnedTokensThenSubstrings ==
    (Returned /\ current_language = "ko") =>
      TokensThenSubstrings(ReturnedTerms, ActiveData, ret.arg)

\* a returned ko result with token matches against iteration order and a
\* substring-only match after them
KoReturnedOrderSeen ==
    /\ Returned /\ current_language = "ko" /\ Len(ret.value) >= 3
    /\ LET tokens == KoTokens(ret.arg) IN
         /\ InList(ReturnedTerms[1], tokens) /\ InList(ReturnedTerms[2], tokens)
         /\ IndexOf(ReturnedTerms[1], Keys(ActiveData))
              > IndexOf(ReturnedTerms[2], Keys(ActiveData))
         /\ ~InList(ReturnedTerms[3], tokens)

\* the word tokens of the lower-cased text: its maximal runs of letters,
\* digits and underscores
EnTokens(text) ==
    LET text_lower == Lower(text)
    IN  MaximalRuns(text_lower, [i \in DOMAIN text_lower |-> text_lower[i] \in WordChars])

\* the pass of the en scan a returned term comes from: 1 word tokens,
\* 2 multi-word keys, 3 case-sensitive terms
EnPass(term) ==
    IF InList(term, case_sensitive_terms) THEN 3
    ELSE IF InList(" ", term) THEN 2 ELSE 1

C18_TermCountIsEntries ==
    LoadedOk =>
      glossaries[ret.arg.language_code].info.total_terms
        = Len(glossaries[ret.arg.language_code].data)

\* after a successful load total_terms is the number of entries when no term
\* of the file repeats, and never less
TermCountAtLeastEntries ==
    LoadedOk =>
      LET table == glossaries[ret.arg.language_code] IN
        /\ table.info.total_terms >= Len(table.data)
        /\ (\A i \in DOMAIN table.data :
              Cardinality(RowsOfTerm(ret.arg.language_code, ret.arg.file,
                                     table.data[i].key)) = 1)
             => table.info.total_terms = Len(table.data)

\* C19: in every state, for every language, a table with no entries reports
\* total_terms 0, also after a failed load that follows a successful one.
C19_EmptyTableCountsZero ==
    \A language \in Languages :
      glossaries[language].data = EmptyDict
        => glossaries[language].info.total_terms = 0

\* C20: with ko active the scan emits exactly the keys that are substrings of
\* the lower-cased text, the set the zh scan emits for that glossary and text.
C20_KoEmitsKeysInText ==
    (Scanned /\ current_language = "ko") =>
      /\ ~ret.raised
      /\ {ReturnedTerms[i] : i \in DOMAIN ReturnedTerms}
           = {KeysInText(ActiveData, ret.arg)[i] :
                i \in DOMAIN KeysInText(ActiveData, ret.arg)}

\* the ko scan where it returns: as a set, the keys in the text
KoReturnedSetIsKeysInText ==
    (Returned /\ current_language = "ko") =>
      {ReturnedTerms[i] : i \in DOMAIN ReturnedTerms}
        = {KeysInText(ActiveData, ret.arg)[i] :
             i \in DOMAIN KeysInText(ActiveData, ret.arg)}

\* key occurs in text as a whole term: whitespace or the text's boundary is
\* on each side of it
OccursDelimited(text, key) ==
    \E i \in 0..(Len(text) - Len(key)) :
      /\ SubSeq(text, i + 1, i + Len(key)) = key
      /\ (i = 0 \/ text[i] \in Whitespace)
      /\ (i + Len(key) = Len(text) \/ text[i + Len(key) + 1] \in Whitespace)

\* C21: with en active every key that is not case-sensitive-listed and occurs
\* in the lower-cased text delimited by whitespace or the text's boundaries
\* is emitted as a Match, also a single-word key with a hyphen in it.
C21_EnScanComplete ==
    (Scanned /\ current_language = "en") =>
      \A i \in DOMAIN ActiveData :
        LET key == ActiveData[i].key IN
          (Upper(key) \notin CaseSensitiveListed /\ OccursDelimited(Lower(ret.arg), key))
            => InList(key, ReturnedTerms)

\* the en scan is complete for the keys made of word characters and spaces
EnCompleteForWordKeys ==
    (Scanned /\ current_language = "en") =>
      \A i \in DOMAIN ActiveData :
        LET key == ActiveData[i].key IN
          (/\ Upper(key) \notin CaseSensitiveListed
           /\ \A c \in DOMAIN key : key[c] \in WordChars \cup {" "}
           /\ OccursDelimited(Lower(ret.arg), key))
            => InList(key, ReturnedTerms)

\* a delimited occurrence of a key of word characters, emitted
EnWordKeyDelimitedSeen ==
    /\ Returned /\ current_language = "en" /\ Len(ret.value) >= 2
    /\ \A i \in DOMAIN ret.value : OccursDelimited(Lower(ret.arg), ReturnedTerms[i])

\* the key x-x, the whole text, is not emitted
HyphenKeyMissed ==
    /\ Returned /\ current_language = "en" /\ ret.arg = <<"x","-","x">>
    /\ HasKey(ActiveData, <<"x","-","x">>)
    /\ ~InList(<<"x","-","x">>, ReturnedTerms)
    /\ ReturnedTerms = << <<"x">> >>

====
